---- MODULE Spec2Model ----
(***************************************************************************)
(* State-machine model of the QA backend (src/unnamed/part_001, the        *)
(* Express server): the team / invite store, the plan gate                 *)
(* requireActivePlan and report creation.  Every awaited Prisma call of a  *)
(* handler is one atomic step against the database; the steps of different *)
(* requests interleave freely.                                             *)
(*                                                                         *)
(* Time is counted in units of the invite lifetime (7 days).               *)
(***************************************************************************)
EXTENDS Integers, FiniteSets, Sequences, TLC

\* ------------------------------------------------------------------ bounds
MaxTime == 2
MaxJoins == 2
\* rows the Activity, Comment and Notification tables are filled up to
MaxRows == 2
\* the report operations run while the clock is below it (half minutes)
MaxClock == 3
\* the feed is read on the days up to this one
MaxDays == 2

\* ------------------------------------------------------- program constants
\* Date.now() + 7 * 24 * 60 * 60 * 1000: one clock unit
InviteTtl == 1

Users == {"u1", "u2", "u3", "u4"}
\* the users who call POST /teams/join
Joiners == {"u1", "u2", "u3"}
\* team ids in the order prisma.team.create hands them out
TeamIds == <<"t1", "t2">>
\* the codes handleGenerateNewCode returns, in the order it returns them, and
\* one code no invite carries
Codes == <<"c1", "c2">>
UnknownCode == "cx"
Roles == {"member", "owner"}
\* the roles requested of POST /teams/:teamId/invite-link
InviteRoles == {"member"}
\* the users who call POST /teams/create
TeamCreators == {"u1"}
\* the POST /teams/join requests of a run
JoinProcs == 1..MaxJoins

\* the POST /api/report requests of a run: two, which may overlap
RepProcs == {1, 2}
\* the users who call POST /api/report
Reporters == {"u2"}
\* hostnames; a Site row is found by its domain
Domains == {"d1", "d2", "d3", "d4"}
\* hostnames of the urls reported
ReportDomains == {"d1", "d4"}
\* the teams whose subscription Stripe reports on
BilledTeams == {"t1"}
Plans == {"free", "starter", "team", "agency"}
\* Stripe subscription statuses
Statuses == {"active", "past_due"}
\* Stripe price ids: the configured ones and one that is not configured
Prices == {"PRICE_STARTER_MONTHLY", "PRICE_TEAM_MONTHLY", "PRICE_FREE_MONTHLY",
           "price_other"}

NoInvite == [code |-> "none"]
NoEmail == "null"
NoTeam == "undefined"
NoSub == [row |-> "null"]
NoPlan == [teamId |-> NoTeam]
\* JavaScript's Infinity: above every count
Infinity == 1000000000

TeamSet == {TeamIds[i] : i \in 1..Len(TeamIds)}

\* concurrent DELETE /api/report/:id requests
DelProcs == {1, 2}

VARIABLES
    now,        \* the wall clock (new Date())
    teams,      \* Team rows: the set of team ids
    members,    \* TeamMember rows: a bag, row -> number of copies
    invites,    \* TeamInvite rows by code (TeamInvite_code_key)
    join,       \* the POST /teams/join requests: position and locals
    redeemed,   \* history: <<code, userId>> of every committed redemption
    subscription, \* Subscription row of each team (Subscription_teamId_key)
    sites,      \* Site rows by domain (Site_domain_key)
    reports,    \* QAReport rows: a bag, row -> number of copies
    rep,        \* the POST /api/report requests: position and locals
    clock,      \* new Date() of the report operations, in half minutes
    qa,         \* QAReport rows by id, with the columns the operations use
    activity,   \* Activity rows: a bag, row -> number of copies
    comment,    \* Comment rows: a bag, row -> number of copies
    notification, \* Notification rows, in the order they were created
    siteUser,   \* SiteUser rows (pins): the set of pinned site ids
    del,        \* the DELETE /api/report/:id requests: position and locals
    lastRes,    \* res: the last request and its response
    feed        \* the body of the last GET /api/notifications

vars == <<now, teams, members, invites, join, redeemed,
          subscription, sites, reports, rep,
          clock, qa, activity, comment, notification, siteUser, del, lastRes, feed>>

\* the tables and requests of the operations on existing reports
reportVars == <<clock, qa, activity, comment, notification, siteUser, del, lastRes, feed>>

\* the tables and requests of report creation
planVars == <<subscription, sites, reports, rep>>

\* ----------------------------------------------------------------- tables
\* number of rows of a table (a bag) among the rows S
RECURSIVE CountRows(_, _)
CountRows(bag, S) ==
    IF S = {} THEN 0
    ELSE LET x == CHOOSE y \in S : TRUE
         IN bag[x] + CountRows(bag, S \ {x})

\* ------------------------------------------------------------- TeamMember
MemberRow(u, t, r) == [userId |-> u, teamId |-> t, role |-> r]

\* number of TeamMember rows of the pair (u, t), whatever the role
RowsOf(mem, u, t) ==
    CountRows(mem, {m \in DOMAIN mem : m.userId = u /\ m.teamId = t})

AddRow(mem, row) ==
    IF row \in DOMAIN mem
    THEN [mem EXCEPT ![row] = @ + 1]
    ELSE [m \in DOMAIN mem \cup {row} |-> IF m = row THEN 1 ELSE mem[m]]

\* (mutation) the table has no unique index
NoUniqueIndex(mem, row) == FALSE

\* CREATE UNIQUE INDEX "TeamMember_userId_teamId_key": an insert of a second
\* row for the pair fails (P2002)
UniqueViolation(mem, row) == RowsOf(mem, row.userId, row.teamId) > 0

\* prisma.teamMember.findFirst({ where: { teamId, userId } })
FindMember(mem, t, u) == RowsOf(mem, u, t) > 0

\* ------------------------------------------------------------- TeamInvite
InviteRow(c, t, r, e, exp) ==
    [code |-> c, teamId |-> t, role |-> r, email |-> e, expiresAt |-> exp,
     used |-> FALSE]

\* prisma.teamInvite.findUnique({ where: { code } })
FindInvite(inv, c) == IF c \in DOMAIN inv THEN inv[c] ELSE NoInvite

\* (mutation) the used flag is not looked at
JoinCheckIgnoresUsed(invite, t) ==
    IF invite = NoInvite THEN "NotFound"
    ELSE IF invite.expiresAt < t THEN "Expired"
    ELSE "Pass"

\* (mutation) the used flag is looked at before the expiry
JoinCheckUsedFirst(invite, t) ==
    IF invite = NoInvite THEN "NotFound"
    ELSE IF invite.used THEN "AlreadyUsed"
    ELSE IF invite.expiresAt < t THEN "Expired"
    ELSE "Pass"

\* The checks of POST /teams/join on the invite it read, in source order
JoinCheck(invite, t) ==
    IF invite = NoInvite THEN "NotFound"
    ELSE IF invite.expiresAt < t THEN "Expired"
    ELSE IF invite.used THEN "AlreadyUsed"
    ELSE "Pass"

\* (mutation) the two writes issued side by side, outside a transaction: the
\* update is kept when the insert fails
JoinWritesNotAtomic(mem, inv, invite, u) ==
    LET row == MemberRow(u, invite.teamId, invite.role) IN
    [ok |-> ~UniqueViolation(mem, row),
     members |-> IF UniqueViolation(mem, row) THEN mem ELSE AddRow(mem, row),
     invites |-> [inv EXCEPT ![invite.code].used = TRUE]]

\* prisma.$transaction([teamMember.create, teamInvite.update]): both writes
\* or, when the insert violates the unique index, neither
JoinTransaction(mem, inv, invite, u) ==
    LET row == MemberRow(u, invite.teamId, invite.role) IN
    IF UniqueViolation(mem, row)
    THEN [ok |-> FALSE, members |-> mem, invites |-> inv]
    ELSE [ok |-> TRUE,
          members |-> AddRow(mem, row),
          invites |-> [inv EXCEPT ![invite.code].used = TRUE]]

\* ------------------------------------------------------------ plan gate
\* mapPriceToPlan
mapPriceToPlan(priceId) ==
    CASE priceId = "PRICE_STARTER_MONTHLY" -> "starter"
      [] priceId = "PRICE_TEAM_MONTHLY" -> "team"
      [] priceId = "PRICE_FREE_MONTHLY" -> "free"
      [] OTHER -> "agency"

\* (mutation) the free plan is given the starter plan's ceilings
PlanLimitsFreeAsStarter(plan) ==
    CASE plan \in {"free", "starter"} ->
            [reports |-> 1000, members |-> 10, sites |-> 5]
      [] plan = "team" -> [reports |-> 5000, members |-> 50, sites |-> Infinity]
      [] plan = "agency" ->
            [reports |-> Infinity, members |-> Infinity, sites |-> Infinity]

\* const PLAN_LIMITS
PLAN_LIMITS(plan) ==
    CASE plan = "free" -> [reports |-> 50, members |-> 3, sites |-> 3]
      [] plan = "starter" -> [reports |-> 1000, members |-> 10, sites |-> 5]
      [] plan = "team" -> [reports |-> 5000, members |-> 50, sites |-> Infinity]
      [] plan = "agency" ->
            [reports |-> Infinity, members |-> Infinity, sites |-> Infinity]

\* team.sites of prisma.team.findUnique({ include: { sites } })
TeamSites(st, t) == {d \in DOMAIN st : st[d].teamId = t}

\* site._count.reports
SiteReports(rp, d) == CountRows(rp, {r \in DOMAIN rp : r.domain = d})

\* team.sites.reduce((sum, site) => sum + site._count.reports, 0)
RECURSIVE SumSites(_, _)
SumSites(rp, S) ==
    IF S = {} THEN 0
    ELSE LET d == CHOOSE x \in S : TRUE
         IN SiteReports(rp, d) + SumSites(rp, S \ {d})

TotalReports(rp, st, t) == SumSites(rp, TeamSites(st, t))

\* team.members.length
TeamMembers(mem, t) == CountRows(mem, {m \in DOMAIN mem : m.teamId = t})

\* the teams user u has a TeamMember row in
TeamsOf(mem, u) == {m.teamId : m \in {x \in DOMAIN mem : x.userId = u}}

\* (mutation) the member check runs before the report check
requireActivePlanMembersFirst(t, sub, totalReports, nMembers, nSites) ==
    LET plan == IF sub = NoSub THEN "free" ELSE sub.plan
        subscriptionStatus == IF sub = NoSub THEN "active" ELSE sub.status
        limits == PLAN_LIMITS(plan)
    IN IF plan # "free" /\ subscriptionStatus # "active"
       THEN [resp |-> "402 subscription inactive", teamPlan |-> NoPlan]
       ELSE IF nMembers > limits.members
       THEN [resp |-> "403 member limit", teamPlan |-> NoPlan]
       ELSE IF totalReports >= limits.reports
       THEN [resp |-> "403 report limit", teamPlan |-> NoPlan]
       ELSE IF nSites >= limits.sites
       THEN [resp |-> "403 site limit", teamPlan |-> NoPlan]
       ELSE [resp |-> "next",
             teamPlan |-> [teamId |-> t, plan |-> plan, limits |-> limits,
                           totalReports |-> totalReports,
                           members |-> nMembers, sites |-> nSites]]

\* (mutation) the report check compares with > instead of >=
requireActivePlanOffByOne(t, sub, totalReports, nMembers, nSites) ==
    LET plan == IF sub = NoSub THEN "free" ELSE sub.plan
        subscriptionStatus == IF sub = NoSub THEN "active" ELSE sub.status
        limits == PLAN_LIMITS(plan)
    IN IF plan # "free" /\ subscriptionStatus # "active"
       THEN [resp |-> "402 subscription inactive", teamPlan |-> NoPlan]
       ELSE IF totalReports > limits.reports
       THEN [resp |-> "403 report limit", teamPlan |-> NoPlan]
       ELSE IF nMembers > limits.members
       THEN [resp |-> "403 member limit", teamPlan |-> NoPlan]
       ELSE IF nSites >= limits.sites
       THEN [resp |-> "403 site limit", teamPlan |-> NoPlan]
       ELSE [resp |-> "next",
             teamPlan |-> [teamId |-> t, plan |-> plan, limits |-> limits,
                           totalReports |-> totalReports,
                           members |-> nMembers, sites |-> nSites]]

\* (mutation) the report check reads a count cached by the previous step
\* instead of the fresh one: it sees one report less
requireActivePlanStaleCount(t, sub, totalReports, nMembers, nSites) ==
    LET plan == IF sub = NoSub THEN "free" ELSE sub.plan
        subscriptionStatus == IF sub = NoSub THEN "active" ELSE sub.status
        limits == PLAN_LIMITS(plan)
        seen == IF totalReports > 0 THEN totalReports - 1 ELSE 0
    IN IF plan # "free" /\ subscriptionStatus # "active"
       THEN [resp |-> "402 subscription inactive", teamPlan |-> NoPlan]
       ELSE IF seen >= limits.reports
       THEN [resp |-> "403 report limit", teamPlan |-> NoPlan]
       ELSE IF nMembers > limits.members
       THEN [resp |-> "403 member limit", teamPlan |-> NoPlan]
       ELSE IF nSites >= limits.sites
       THEN [resp |-> "403 site limit", teamPlan |-> NoPlan]
       ELSE [resp |-> "next",
             teamPlan |-> [teamId |-> t, plan |-> plan, limits |-> limits,
                           totalReports |-> totalReports,
                           members |-> nMembers, sites |-> nSites]]

\* requireActivePlan once the team is loaded: the plan, its limits and the
\* four checks in source order
requireActivePlan(t, sub, totalReports, nMembers, nSites) ==
    LET plan == IF sub = NoSub THEN "free" ELSE sub.plan
        subscriptionStatus == IF sub = NoSub THEN "active" ELSE sub.status
        limits == PLAN_LIMITS(plan)
    IN IF plan # "free" /\ subscriptionStatus # "active"
       THEN [resp |-> "402 subscription inactive", teamPlan |-> NoPlan]
       ELSE IF totalReports >= limits.reports
       THEN [resp |-> "403 report limit", teamPlan |-> NoPlan]
       ELSE IF nMembers > limits.members
       THEN [resp |-> "403 member limit", teamPlan |-> NoPlan]
       ELSE IF nSites >= limits.sites
       THEN [resp |-> "403 site limit", teamPlan |-> NoPlan]
       ELSE [resp |-> "next",
             teamPlan |-> [teamId |-> t, plan |-> plan, limits |-> limits,
                           totalReports |-> totalReports,
                           members |-> nMembers, sites |-> nSites]]

\* the values of teamId in requireActivePlan: req.body.teamId, or else the
\* team of the user's first TeamMember row (the database's order)
GateTeamIds(bodyTeam, mem, u) ==
    IF bodyTeam # NoTeam THEN {bodyTeam}
    ELSE IF TeamsOf(mem, u) = {} THEN {NoTeam}
    ELSE TeamsOf(mem, u)

\* req.body.teamId when requireActivePlan runs: express.json() parses a JSON
\* body; a multipart body is parsed by multer, after the gate
BodyTeamAtGate(multipart, bodyTeam) == IF multipart THEN NoTeam ELSE bodyTeam

\* userTeamId = teamId || getUserTeamIds(req)[0]
HandlerTeamId(bodyTeam, tokenTeam) ==
    IF bodyTeam # NoTeam THEN bodyTeam ELSE tokenTeam

ReportRow(u, d) == [userId |-> u, domain |-> d]

\* Site: { connectOrCreate: { where: { domain }, create: { teamId } } }
ConnectOrCreateSite(st, d, t) ==
    IF d \in DOMAIN st THEN st
    ELSE [x \in DOMAIN st \cup {d} |->
            IF x = d THEN [teamId |-> t] ELSE st[x]]

\* ------------------------------------------------------------------- Init
IdleJoin ==
    [pc |-> "idle", userId |-> "u1", code |-> UnknownCode, invite |-> NoInvite,
     resp |-> "none"]

\* a finished request: what was asked and what was answered
DoneJoin(u, c, r) ==
    [pc |-> "done", userId |-> u, code |-> c, invite |-> NoInvite, resp |-> r]

\* userTeamId is the handler's constant: teamId || getUserTeamIds(req)[0]
IdleRep ==
    [pc |-> "idle", userId |-> "u1", domain |-> "d1", userTeamId |-> NoTeam,
     multipart |-> FALSE, gateTeam |-> NoTeam, teamPlan |-> NoPlan,
     resp |-> "none"]

\* a finished request: the answer and, of a request that created a report,
\* where the report went and what the gate saw
DoneRep(r, resp) ==
    IF resp = "200 report"
    THEN [IdleRep EXCEPT !.pc = "done", !.domain = r.domain,
                         !.gateTeam = r.gateTeam, !.teamPlan = r.teamPlan,
                         !.resp = resp]
    ELSE [IdleRep EXCEPT !.pc = "done", !.gateTeam = r.gateTeam, !.resp = resp]

\* a request past the gate: the locals its handler will read
HandlerRep(r, teamPlan) ==
    IF r.multipart /\ r.userTeamId # NoTeam
    THEN [r EXCEPT !.pc = "handler", !.teamPlan = teamPlan]
    ELSE [IdleRep EXCEPT !.pc = "handler", !.multipart = r.multipart,
                         !.gateTeam = r.gateTeam]

\* no DELETE request, no response yet
IdleDel ==
    [pc |-> "idle", id |-> "null", siteId |-> "null", deleteSite |-> FALSE,
     alone |-> TRUE, status |-> 0]

NoRes == [op |-> "none", status |-> 0]

NoFeed == [userId |-> "nobody", notifications |-> << >>]

\* no report operation has run: the tables they use are empty
NoReportOps ==
    /\ clock = 0
    /\ qa = << >>
    /\ activity = << >>
    /\ comment = << >>
    /\ notification = << >>
    /\ siteUser = {}
    /\ del = [p \in DelProcs |-> IdleDel]
    /\ lastRes = NoRes
    /\ feed = NoFeed

\* the empty database
Init ==
    /\ now = 0
    /\ teams = {}
    /\ members = << >>
    /\ invites = << >>
    /\ join = [p \in JoinProcs |-> IdleJoin]
    /\ redeemed = {}
    /\ subscription = [t \in TeamSet |-> NoSub]
    /\ sites = << >>
    /\ reports = << >>
    /\ rep = [p \in RepProcs |-> IdleRep]
    /\ NoReportOps

\* ---------------------------------------------------------------- actions
\* the clock advances
Tick ==
    /\ now < MaxTime
    /\ now' = now + 1
    /\ UNCHANGED <<teams, members, invites, join, redeemed, planVars, reportVars>>

\* POST /teams/create: a new team with the caller as its owner
CreateTeam(u) ==
    /\ Cardinality(teams) < Len(TeamIds)
    /\ LET t == TeamIds[Cardinality(teams) + 1]
       IN /\ teams' = teams \cup {t}
          /\ members' = AddRow(members, MemberRow(u, t, "owner"))
    /\ UNCHANGED <<now, invites, join, redeemed, planVars, reportVars>>

\* POST /teams/:teamId/invite-link
CreateInviteLink(t, r) ==
    /\ t \in teams
    /\ Cardinality(DOMAIN invites) < Len(Codes)
    /\ LET c == Codes[Cardinality(DOMAIN invites) + 1]
       IN invites' = [x \in DOMAIN invites \cup {c} |->
                        IF x = c
                        THEN InviteRow(c, t, r, NoEmail, now + InviteTtl)
                        ELSE invites[x]]
    /\ UNCHANGED <<now, teams, members, join, redeemed, planVars, reportVars>>

\* POST /teams/join, first await: findUnique, then the expiry and used checks
\* (requests are numbered in the order they arrive)
JoinFindInvite(p, u, c) ==
    /\ join[p].pc = "idle"
    /\ \A q \in JoinProcs : q < p => join[q].pc # "idle"
    /\ LET invite == FindInvite(invites, c)
           res == JoinCheck(invite, now)
       IN join' = [join EXCEPT ![p] =
                     IF res = "Pass"
                     THEN [pc |-> "findMember", userId |-> u, code |-> c,
                           invite |-> invite, resp |-> "none"]
                     ELSE DoneJoin(u, c, res)]
    /\ UNCHANGED <<now, teams, members, invites, redeemed, planVars, reportVars>>

\* second await: findFirst on TeamMember ("prevent double-joining")
JoinFindMember(p) ==
    /\ join[p].pc = "findMember"
    /\ join' = [join EXCEPT ![p] =
                  IF FindMember(members, join[p].invite.teamId, join[p].userId)
                  THEN DoneJoin(@.userId, @.code, "AlreadyMember")
                  ELSE [@ EXCEPT !.pc = "transaction"]]
    /\ UNCHANGED <<now, teams, members, invites, redeemed, planVars, reportVars>>

\* third await: the transaction; a failed transaction rejects the handler's
\* promise and no success response is sent
JoinCommit(p) ==
    /\ join[p].pc = "transaction"
    /\ LET tx == JoinTransaction(members, invites, join[p].invite, join[p].userId)
       IN /\ members' = tx.members
          /\ invites' = tx.invites
          /\ redeemed' = IF tx.members # members
                         THEN redeemed \cup {<<join[p].code, join[p].userId>>}
                         ELSE redeemed
          /\ join' = [join EXCEPT ![p] =
                        DoneJoin(@.userId, @.code,
                                 IF tx.ok THEN "Joined" ELSE "Error")]
    /\ UNCHANGED <<now, teams, planVars, reportVars>>

NextJoin ==
    \/ Tick
    \/ \E u \in TeamCreators : CreateTeam(u)
    \/ \E t \in teams, r \in InviteRoles : CreateInviteLink(t, r)
    \/ \E p \in JoinProcs, u \in Joiners, c \in DOMAIN invites \cup {UnknownCode} :
          JoinFindInvite(p, u, c)
    \/ \E p \in JoinProcs : JoinFindMember(p)
    \/ \E p \in JoinProcs : JoinCommit(p)

SpecJoin == Init /\ [][NextJoin]_vars

\* ------------------------------------------------- report creation: Init
\* report counts a team on the plan starts a run with: at its ceiling and
\* one below it
StartCounts(plan) ==
    LET ceiling == PLAN_LIMITS(plan).reports
    IN IF ceiling = Infinity THEN {0} ELSE {ceiling - 1, ceiling}

\* the rows {row -> n}: n copies of one row
Rows(row, n) == IF n = 0 THEN << >> ELSE [r \in {row} |-> n]

\* A database with two teams: t1 (owner u1, members u2, u3 and perhaps u4)
\* holds the sites d1, d2 and perhaps d3 and n reports; t2 (owner u2) holds
\* nothing.  t1 has a Subscription row unless it is on the free plan.
InitPlan ==
    \E plan \in Plans, fourth \in BOOLEAN, third \in BOOLEAN :
    \E n \in StartCounts(plan) :
        /\ now = 0
        /\ teams = {"t1", "t2"}
        /\ members =
             [m \in {MemberRow("u1", "t1", "owner"), MemberRow("u2", "t1", "member"),
                     MemberRow("u3", "t1", "member"), MemberRow("u2", "t2", "owner")}
                    \cup (IF fourth THEN {MemberRow("u4", "t1", "member")} ELSE {})
               |-> 1]
        /\ invites = << >>
        /\ join = [p \in JoinProcs |-> IdleJoin]
        /\ redeemed = {}
        /\ subscription =
             [t \in TeamSet |->
                IF t = "t1" /\ plan # "free"
                THEN [plan |-> plan, status |-> "active"] ELSE NoSub]
        /\ sites = [d \in {"d1", "d2"} \cup (IF third THEN {"d3"} ELSE {})
                      |-> [teamId |-> "t1"]]
        /\ reports = Rows(ReportRow("u1", "d1"), n)
        /\ rep = [p \in RepProcs |-> IdleRep]
        /\ NoReportOps

\* ------------------------------------------------ report creation: steps
\* POST /billing/webhook, checkout.session.completed and
\* customer.subscription.created / updated: upsert of the team's row
WebhookUpsert(t, priceId, status) ==
    /\ t \in teams
    /\ subscription' = [subscription EXCEPT
                          ![t] = [plan |-> mapPriceToPlan(priceId),
                                  status |-> status]]
    /\ UNCHANGED <<now, teams, members, invites, join, redeemed, reportVars,
                   sites, reports, rep>>

\* POST /api/report, the middleware requireActivePlan.  u is the token's
\* user, d the domain of the url, bodyTeam the teamId field, tokenTeam the
\* first team of the token, gateTeam the team the gate resolves.
\* (requests are numbered in the order they arrive)
ReportGate(p, u, d, bodyTeam, tokenTeam, multipart, gateTeam) ==
    /\ rep[p].pc = "idle"
    /\ \A q \in RepProcs : q < p => rep[q].pc # "idle"
    /\ tokenTeam \in {NoTeam} \cup TeamsOf(members, u)
    /\ gateTeam \in GateTeamIds(BodyTeamAtGate(multipart, bodyTeam), members, u)
    /\ LET r == [IdleRep EXCEPT !.userId = u, !.domain = d,
                                !.userTeamId = HandlerTeamId(bodyTeam, tokenTeam),
                                !.multipart = multipart, !.gateTeam = gateTeam]
           g == requireActivePlan(gateTeam, subscription[gateTeam],
                                  TotalReports(reports, sites, gateTeam),
                                  TeamMembers(members, gateTeam),
                                  Cardinality(TeamSites(sites, gateTeam)))
       IN rep' = [rep EXCEPT ![p] =
                    IF gateTeam = NoTeam
                    THEN DoneRep(r, "400 No team selected")
                    ELSE IF gateTeam \notin teams
                    THEN DoneRep(r, "404 Team not found")
                    ELSE IF g.resp # "next"
                    THEN DoneRep(r, g.resp)
                    ELSE HandlerRep(r, g.teamPlan)]
    /\ UNCHANGED <<now, teams, members, invites, join, redeemed, reportVars,
                   subscription, sites, reports>>

\* POST /api/report, the handler, with the upload to object storage
\* succeeding: the checks, then prisma.qAReport.create
ReportCreate(p) ==
    /\ rep[p].pc = "handler"
    /\ LET r == rep[p]
           userTeamId == r.userTeamId
       IN IF ~r.multipart
          THEN /\ rep' = [rep EXCEPT ![p] = DoneRep(r, "400 No screenshot uploaded")]
               /\ UNCHANGED <<sites, reports>>
          ELSE IF userTeamId = NoTeam
          THEN /\ rep' = [rep EXCEPT ![p] = DoneRep(r, "400 No team available")]
               /\ UNCHANGED <<sites, reports>>
          ELSE IF userTeamId \notin teams
          THEN /\ rep' = [rep EXCEPT ![p] = DoneRep(r, "400 Team not found")]
               /\ UNCHANGED <<sites, reports>>
          ELSE /\ sites' = ConnectOrCreateSite(sites, r.domain, userTeamId)
               /\ reports' = AddRow(reports, ReportRow(r.userId, r.domain))
               /\ rep' = [rep EXCEPT ![p] = DoneRep(r, "200 report")]
    /\ UNCHANGED <<now, teams, members, invites, join, redeemed, reportVars, subscription>>

\* (mutation) the report is created before the screenshot is uploaded
ReportUploadFailsAfterCreate(p) ==
    /\ rep[p].pc = "handler"
    /\ rep[p].multipart
    /\ rep[p].userTeamId \in teams
    /\ sites' = ConnectOrCreateSite(sites, rep[p].domain, rep[p].userTeamId)
    /\ reports' = AddRow(reports, ReportRow(rep[p].userId, rep[p].domain))
    /\ rep' = [rep EXCEPT ![p] = DoneRep(rep[p], "500 Failed to save report")]
    /\ UNCHANGED <<now, teams, members, invites, join, redeemed, reportVars,
                   subscription>>

\* POST /api/report, the handler, with uploadBufferToR2 throwing
ReportUploadFails(p) ==
    /\ rep[p].pc = "handler"
    /\ rep[p].multipart
    /\ rep[p].userTeamId \in teams
    /\ rep' = [rep EXCEPT ![p] = DoneRep(rep[p], "500 Failed to save report")]
    /\ UNCHANGED <<now, teams, members, invites, join, redeemed, reportVars,
                   subscription, sites, reports>>

NextPlan ==
    \/ \E t \in BilledTeams, priceId \in Prices, status \in Statuses :
          WebhookUpsert(t, priceId, status)
    \/ \E p \in RepProcs, u \in Reporters, d \in ReportDomains,
          bodyTeam \in {NoTeam} \cup TeamSet, multipart \in BOOLEAN :
          \E tokenTeam \in {NoTeam} \cup TeamsOf(members, u),
             gateTeam \in GateTeamIds(BodyTeamAtGate(multipart, bodyTeam),
                                      members, u) :
             ReportGate(p, u, d, bodyTeam, tokenTeam, multipart, gateTeam)
    \/ \E p \in RepProcs : ReportCreate(p)
    \/ \E p \in RepProcs : ReportUploadFails(p)

SpecPlan == InitPlan /\ [][NextPlan]_vars

\* =================================================== operations on reports
\* ids of QAReport rows, and an id with no row
ReportIds == {"r1", "r2"}
UnknownReport == "rx"

\* null in a timestamp or integer column
Null == -1

\* a dueDate the request body carries that Date.parse cannot read
InvalidDate == -2

ReportStatuses == {"new", "inProgress", "done"}

\* const allowed, part of it, and a value outside it
AllowedPriorities == {"low", "urgent"}
BadPriority == "asap"

\* a QAReport row as POST /api/report creates it, with the column defaults
QARow(u, site, t) ==
    [userId |-> u, siteId |-> site, slug |-> site, timestamp |-> t,
     status |-> "new", priority |-> "not assigned", dueDate |-> Null,
     resolvedAt |-> Null, duration |-> Null,
     archived |-> FALSE, archivedAt |-> Null]

\* number of rows of a bag
BagSize(bag) == CountRows(bag, DOMAIN bag)

\* the tables have room for the row of one more operation
ActivityRoom == BagSize(activity) < MaxRows
CommentRoom == Len(notification) < MaxRows

ActivityRow(u, actor, type, id, status, priority, dueDate) ==
    [userId |-> u, actorId |-> actor, type |-> type, reportId |-> id,
     status |-> status, priority |-> priority, dueDate |-> dueDate]

\* logActivity: prisma.activity.create in a try / catch; ok is whether the
\* create succeeds
logActivity(act, row, ok) == IF ok THEN AddRow(act, row) ELSE act

\* a request and its response: the operation, the token's user, the id in
\* the path, req.body, the HTTP status, the report in the response body, and
\* whether logActivity wrote to console.error
Res(op, u, id, body, status, report, logError) ==
    [op |-> op, userId |-> u, id |-> id, body |-> body, status |-> status,
     report |-> report, logError |-> logError]

NoBody == [error |-> "message"]

\* (mutation) logActivity does not catch: the handler's catch answers 500
ChangeResponseUncaught(op, u, id, body, updated, failed) ==
    IF failed THEN Res(op, u, id, body, 500, NoBody, FALSE)
    ELSE Res(op, u, id, body, 200, updated, FALSE)

\* what follows the update in the three handlers: await logActivity(...),
\* which catches and logs a failed write, then res.json(updated)
ChangeResponse(op, u, id, body, updated, failed) ==
    Res(op, u, id, body, 200, updated, failed)

\* (mutation) the owner's own change is logged as well
NotifiesSelf(owner, actor) == TRUE

\* updated.userId !== req.user.id
Notifies(owner, actor) == owner # actor

\* PATCH /api/report/:id/status
PatchStatus(actor, id, status, ok) ==
    /\ ActivityRoom
    /\ IF id \notin DOMAIN qa
       THEN /\ lastRes' = Res("status", actor, id, [status |-> status], 500, NoBody, FALSE)
            /\ UNCHANGED <<qa, activity>>
       ELSE LET updated == [qa[id] EXCEPT !.status = status]
                logs == Notifies(updated.userId, actor)
            IN /\ qa' = [qa EXCEPT ![id] = updated]
               /\ activity' =
                    IF logs
                    THEN logActivity(activity,
                           ActivityRow(updated.userId, actor, "status", id,
                                       status, "null", Null), ok)
                    ELSE activity
               /\ lastRes' = ChangeResponse("status", actor, id, [status |-> status],
                                            updated, logs /\ ~ok)
    /\ UNCHANGED <<clock, comment, notification, siteUser, del, feed>>
    /\ UNCHANGED <<now, teams, members, invites, join, redeemed, planVars>>

\* PATCH /api/report/:id/priority
PatchPriority(actor, id, priority, ok) ==
    /\ ActivityRoom
    /\ IF priority \notin AllowedPriorities
       THEN /\ lastRes' = Res("priority", actor, id, [priority |-> priority], 400, NoBody, FALSE)
            /\ UNCHANGED <<qa, activity>>
       ELSE IF id \notin DOMAIN qa
       THEN /\ lastRes' = Res("priority", actor, id, [priority |-> priority], 404, NoBody, FALSE)
            /\ UNCHANGED <<qa, activity>>
       ELSE LET updatedReport == [qa[id] EXCEPT !.priority = priority]
                logs == Notifies(updatedReport.userId, actor)
            IN /\ qa' = [qa EXCEPT ![id] = updatedReport]
               /\ activity' =
                    IF logs
                    THEN logActivity(activity,
                           ActivityRow(updatedReport.userId, actor, "priority",
                                       id, "null", priority, Null), ok)
                    ELSE activity
               /\ lastRes' = ChangeResponse("priority", actor, id,
                                            [priority |-> priority],
                                            updatedReport, logs /\ ~ok)
    /\ UNCHANGED <<clock, comment, notification, siteUser, del, feed>>
    /\ UNCHANGED <<now, teams, members, invites, join, redeemed, planVars>>

\* PATCH /api/report/:id/due-date; dueDate is Null to clear the date
PatchDueDate(actor, id, dueDate, ok) ==
    /\ ActivityRoom
    /\ IF dueDate = InvalidDate
       THEN /\ lastRes' = Res("due_date", actor, id, [dueDate |-> dueDate], 400, NoBody, FALSE)
            /\ UNCHANGED <<qa, activity>>
       ELSE IF id \notin DOMAIN qa
       THEN /\ lastRes' = Res("due_date", actor, id, [dueDate |-> dueDate], 404, NoBody, FALSE)
            /\ UNCHANGED <<qa, activity>>
       ELSE LET updatedReport == [qa[id] EXCEPT !.dueDate = dueDate]
                logs == Notifies(updatedReport.userId, actor)
            IN /\ qa' = [qa EXCEPT ![id] = updatedReport]
               /\ activity' =
                    IF logs
                    THEN logActivity(activity,
                           ActivityRow(updatedReport.userId, actor, "due_date",
                                       id, "null", "null", dueDate), ok)
                    ELSE activity
               /\ lastRes' = ChangeResponse("due_date", actor, id,
                                            [dueDate |-> dueDate],
                                            updatedReport, logs /\ ~ok)
    /\ UNCHANGED <<clock, comment, notification, siteUser, del, feed>>
    /\ UNCHANGED <<now, teams, members, invites, join, redeemed, planVars>>

CommentRow(id, u) == [reportId |-> id, userId |-> u]

NotificationRow(u, type, id, t) ==
    [userId |-> u, type |-> type, reportId |-> id, read |-> FALSE,
     createdAt |-> t]

\* POST /api/reports/:reportId/comments, without attachments; content is
\* whether the body has a content field
PostComment(actor, id, content) ==
    /\ CommentRoom
    /\ IF ~content
       THEN /\ lastRes' = Res("comment", actor, id, [content |-> content], 400, NoBody, FALSE)
            /\ UNCHANGED <<comment, notification>>
       ELSE IF id \notin DOMAIN qa
       THEN \* Comment_reportId_fkey: the create throws
            /\ lastRes' = Res("comment", actor, id, [content |-> content], 500, NoBody, FALSE)
            /\ UNCHANGED <<comment, notification>>
       ELSE /\ comment' = AddRow(comment, CommentRow(id, actor))
            /\ notification' =
                 Append(notification,
                        NotificationRow(actor, "MENTION", id, clock))
            /\ lastRes' = Res("comment", actor, id, [content |-> content], 200,
                              CommentRow(id, actor), FALSE)
    /\ UNCHANGED <<clock, qa, activity, siteUser, del, feed>>
    /\ UNCHANGED <<now, teams, members, invites, join, redeemed, planVars>>

\* two reports of one site: r1 of u1 and r2 of u2
InitActivity ==
    /\ now = 0
    /\ teams = {}
    /\ members = << >>
    /\ invites = << >>
    /\ join = [p \in JoinProcs |-> IdleJoin]
    /\ redeemed = {}
    /\ subscription = [t \in TeamSet |-> NoSub]
    /\ sites = [d \in {"d1"} |-> [teamId |-> "t1"]]
    /\ reports = << >>
    /\ rep = [p \in RepProcs |-> IdleRep]
    /\ clock = 0
    /\ qa = [id \in ReportIds |->
               QARow(IF id = "r1" THEN "u1" ELSE "u2", "d1", 0)]
    /\ activity = << >>
    /\ comment = << >>
    /\ notification = << >>
    /\ siteUser = {}
    /\ del = [p \in DelProcs |-> IdleDel]
    /\ lastRes = NoRes
    /\ feed = NoFeed

Actors == {"u1", "u2"}

NextActivity ==
    \/ \E actor \in Actors, id \in {"r1", UnknownReport},
          status \in {"inProgress", "done"}, ok \in BOOLEAN :
          PatchStatus(actor, id, status, ok)
    \/ \E actor \in Actors, id \in {"r1", UnknownReport},
          priority \in {"urgent", BadPriority}, ok \in BOOLEAN :
          PatchPriority(actor, id, priority, ok)
    \/ \E actor \in Actors, id \in {"r1", UnknownReport},
          dueDate \in {Null, 1, InvalidDate}, ok \in BOOLEAN :
          PatchDueDate(actor, id, dueDate, ok)
    \/ \E actor \in Actors, id \in {"r1", UnknownReport}, content \in BOOLEAN :
          PostComment(actor, id, content)

SpecActivity == InitActivity /\ [][NextActivity]_vars

\* ------------------------------------------------------------- resolution
\* Math.round(ms / 60000) of a difference of d half minutes
RoundMinutes(d) == (d + 1) \div 2

\* time passes
Advance ==
    /\ clock < MaxClock
    /\ clock' = clock + 1
    /\ UNCHANGED <<qa, activity, comment, notification, siteUser, del,
                   lastRes, feed>>
    /\ UNCHANGED <<now, teams, members, invites, join, redeemed, planVars>>

\* the caller of a route without authenticateToken
Anonymous == "anonymous"

\* PATCH /api/report/:id; status is "" when the body has none
PatchReport(id, status) ==
    /\ IF status = ""
       THEN /\ lastRes' = Res("report", Anonymous, id, [status |-> status],
                              400, NoBody, FALSE)
            /\ UNCHANGED qa
       ELSE IF id \notin DOMAIN qa
       THEN /\ lastRes' = Res("report", Anonymous, id, [status |-> status],
                              404, NoBody, FALSE)
            /\ UNCHANGED qa
       ELSE LET existing == qa[id]
                resolvedAt == clock
                duration == RoundMinutes(resolvedAt - existing.timestamp)
                updatedReport ==
                  IF status = "done"
                  THEN [existing EXCEPT !.status = status,
                                        !.resolvedAt = resolvedAt,
                                        !.duration = duration]
                  ELSE [existing EXCEPT !.status = status]
            IN /\ qa' = [qa EXCEPT ![id] = updatedReport]
               /\ lastRes' = Res("report", Anonymous, id, [status |-> status],
                                 200, updatedReport, FALSE)
    /\ UNCHANGED <<clock, activity, comment, notification, siteUser, del, feed>>
    /\ UNCHANGED <<now, teams, members, invites, join, redeemed, planVars>>

\* one report of u1, created at time 0
InitResolve ==
    /\ now = 0
    /\ teams = {}
    /\ members = << >>
    /\ invites = << >>
    /\ join = [p \in JoinProcs |-> IdleJoin]
    /\ redeemed = {}
    /\ subscription = [t \in TeamSet |-> NoSub]
    /\ sites = [d \in {"d1"} |-> [teamId |-> "t1"]]
    /\ reports = << >>
    /\ rep = [p \in RepProcs |-> IdleRep]
    /\ clock = 0
    /\ qa = [id \in {"r1"} |-> QARow("u1", "d1", 0)]
    /\ activity = << >>
    /\ comment = << >>
    /\ notification = << >>
    /\ siteUser = {}
    /\ del = [p \in DelProcs |-> IdleDel]
    /\ lastRes = NoRes
    /\ feed = NoFeed

NextResolve ==
    \/ Advance
    \/ \E id \in {"r1", UnknownReport}, status \in {"", "inProgress", "done"} :
          PatchReport(id, status)
    \/ \E actor \in Actors, status \in {"inProgress", "done"} :
          PatchStatus(actor, "r1", status, TRUE)

SpecResolve == InitResolve /\ [][NextResolve]_vars

\* ---------------------------------------------------------------- archive
\* a slug no report carries
UnknownSlug == "d9"

\* (mutation) un-archiving keeps the timestamp
ArchiveDataKeepsStamp(archived, t) == [archived |-> archived, archivedAt |-> t]

\* data: { archived, archivedAt: archived ? new Date() : null }
ArchiveData(archived, t) ==
    [archived |-> archived, archivedAt |-> IF archived THEN t ELSE Null]

\* where: { slug, userId }
ArchiveWhere(row, slug, u) == row.slug = slug /\ row.userId = u

\* PATCH /api/site/:slug/archive; isBoolean is typeof archived === 'boolean'
ArchiveSite(actor, slug, archived, isBoolean) ==
    /\ IF ~isBoolean
       THEN /\ lastRes' = Res("archive", actor, slug, [archived |-> "other"],
                              400, NoBody, FALSE)
            /\ UNCHANGED qa
       ELSE LET data == ArchiveData(archived, clock)
            IN /\ qa' = [id \in DOMAIN qa |->
                           IF ArchiveWhere(qa[id], slug, actor)
                           THEN [qa[id] EXCEPT !.archived = data.archived,
                                               !.archivedAt = data.archivedAt]
                           ELSE qa[id]]
               /\ lastRes' = Res("archive", actor, slug,
                                 [archived |-> archived], 200, NoBody, FALSE)
    /\ UNCHANGED <<clock, activity, comment, notification, siteUser, del, feed>>
    /\ UNCHANGED <<now, teams, members, invites, join, redeemed, planVars>>

\* three reports: r1 of u1 and r2 of u2 on d1, r3 of u1 on d2
InitArchive ==
    /\ now = 0
    /\ teams = {}
    /\ members = << >>
    /\ invites = << >>
    /\ join = [p \in JoinProcs |-> IdleJoin]
    /\ redeemed = {}
    /\ subscription = [t \in TeamSet |-> NoSub]
    /\ sites = [d \in {"d1", "d2"} |-> [teamId |-> "t1"]]
    /\ reports = << >>
    /\ rep = [p \in RepProcs |-> IdleRep]
    /\ clock = 0
    /\ qa = [id \in {"r1", "r2", "r3"} |->
               QARow(IF id = "r2" THEN "u2" ELSE "u1",
                     IF id = "r3" THEN "d2" ELSE "d1", 0)]
    /\ activity = << >>
    /\ comment = << >>
    /\ notification = << >>
    /\ siteUser = {}
    /\ del = [p \in DelProcs |-> IdleDel]
    /\ lastRes = NoRes
    /\ feed = NoFeed

NextArchive ==
    \/ Advance
    \/ \E actor \in Actors, slug \in {"d1", "d2", UnknownSlug},
          archived \in BOOLEAN, isBoolean \in BOOLEAN :
          ArchiveSite(actor, slug, archived, isBoolean)

SpecArchive == InitArchive /\ [][NextArchive]_vars

\* ------------------------------------------------------------------- feed
\* a day, in half minutes
Day == 2880

\* take: 50
Take == 50

\* startOfDay.setHours(0, 0, 0, 0) and endOfDay.setHours(23, 59, 59, 999)
StartOfDay(t) == (t \div Day) * Day
EndOfDay(t) == StartOfDay(t) + Day - 1

\* (mutation) ascending
AscBefore(a, b) == a.createdAt <= b.createdAt

\* the comparator of the sort, b.createdAt - a.createdAt: a stays before b
DescBefore(a, b) == a.createdAt >= b.createdAt

\* Array.prototype.sort with the comparator, as an insertion sort from the
\* last entry on: e goes before the first entry the comparator lets it stay
\* before, which keeps equal entries in their order (the sort is stable)
RECURSIVE InsertSorted(_, _)
InsertSorted(e, sorted) ==
    IF sorted = << >> THEN <<e>>
    ELSE IF DescBefore(e, sorted[1]) THEN <<e>> \o sorted
    ELSE <<sorted[1]>> \o InsertSorted(e, Tail(sorted))

RECURSIVE Sorted(_)
Sorted(entries) ==
    IF entries = << >> THEN << >>
    ELSE InsertSorted(entries[1], Sorted(Tail(entries)))

Entry(type, n, id, createdAt, read) ==
    [type |-> type, n |-> n, reportId |-> id, createdAt |-> createdAt,
     read |-> read]

\* the rows of user u, latest insert first, as entries; n is the row
RECURSIVE StoredRows(_, _, _)
StoredRows(nt, u, i) ==
    IF i = 0 THEN << >>
    ELSE IF nt[i].userId = u
    THEN <<Entry(nt[i].type, i, nt[i].reportId, nt[i].createdAt, nt[i].read)>>
         \o StoredRows(nt, u, i - 1)
    ELSE StoredRows(nt, u, i - 1)

FirstRows(entries, n) ==
    SubSeq(entries, 1, IF Len(entries) < n THEN Len(entries) ELSE n)

\* prisma.notification.findMany({ where: { userId },
\*   orderBy: { createdAt: 'desc' }, take: 50 })
StoredNotifications(nt, u) ==
    FirstRows(Sorted(StoredRows(nt, u, Len(nt))), Take)

\* where: { userId, dueDate: { lt: startOfDay }, status: { not: 'resolved' } }
IsOverdue(row, u, t) ==
    /\ row.userId = u
    /\ row.dueDate # Null /\ row.dueDate < StartOfDay(t)
    /\ row.status # "resolved"

\* where: { userId, dueDate: { gte: startOfDay, lte: endOfDay },
\*          status: { not: 'resolved' } }
IsDueToday(row, u, t) ==
    /\ row.userId = u
    /\ row.dueDate # Null
    /\ row.dueDate >= StartOfDay(t) /\ row.dueDate <= EndOfDay(t)
    /\ row.status # "resolved"

\* the rows of a findMany without orderBy, as entries of the given type
RECURSIVE TaskEntries(_, _, _)
TaskEntries(rows, ids, type) ==
    IF ids = {} THEN << >>
    ELSE LET id == CHOOSE x \in ids : TRUE
         IN <<Entry(type, 0, id, rows[id].dueDate, FALSE)>>
            \o TaskEntries(rows, ids \ {id}, type)

\* GET /api/notifications: the merged array of the response
Notifications(nt, rows, u, t) ==
    Sorted(
        StoredNotifications(nt, u)
        \o TaskEntries(rows, {id \in DOMAIN rows : IsOverdue(rows[id], u, t)},
                       "TASK_OVERDUE")
        \o TaskEntries(rows, {id \in DOMAIN rows : IsDueToday(rows[id], u, t)},
                       "TASK_DUE_TODAY"))

GetNotifications(u) ==
    /\ feed' = [userId |-> u,
                notifications |-> Notifications(notification, qa, u, clock)]
    /\ UNCHANGED <<clock, qa, activity, comment, notification, siteUser, del,
                   lastRes>>
    /\ UNCHANGED <<now, teams, members, invites, join, redeemed, planVars>>

\* POST /api/notifications/mark-all-read
MarkAllRead(u) ==
    /\ notification' =
         [i \in 1..Len(notification) |->
            IF notification[i].userId = u /\ ~notification[i].read
            THEN [notification[i] EXCEPT !.read = TRUE]
            ELSE notification[i]]
    /\ lastRes' = Res("mark-all-read", u, "null", NoBody, 200, NoBody, FALSE)
    /\ UNCHANGED <<clock, qa, activity, comment, feed, siteUser, del>>
    /\ UNCHANGED <<now, teams, members, invites, join, redeemed, planVars>>

\* midnight passes
NextDay ==
    /\ clock < MaxDays * Day
    /\ clock' = StartOfDay(clock) + Day
    /\ UNCHANGED <<qa, activity, comment, notification, siteUser, del,
                   lastRes, feed>>
    /\ UNCHANGED <<now, teams, members, invites, join, redeemed, planVars>>

\* the start of day 1.  u1 has commented n times on day 0, half a minute
\* apart, and u2 once; r1 is u1's report, r2 is u2's and was due on day 0
InitFeed ==
    \E n \in {0, Take + 1} :
        /\ now = 0
        /\ teams = {}
        /\ members = << >>
        /\ invites = << >>
        /\ join = [p \in JoinProcs |-> IdleJoin]
        /\ redeemed = {}
        /\ subscription = [t \in TeamSet |-> NoSub]
        /\ sites = [d \in {"d1"} |-> [teamId |-> "t1"]]
        /\ reports = << >>
        /\ rep = [p \in RepProcs |-> IdleRep]
        /\ clock = Day
        /\ qa = [id \in ReportIds |->
                   IF id = "r1" THEN QARow("u1", "d1", 0)
                   ELSE [QARow("u2", "d1", 0) EXCEPT !.dueDate = Day - 1]]
        /\ activity = << >>
        /\ comment = [c \in {CommentRow("r1", "u1"), CommentRow("r1", "u2")} |->
                        IF c.userId = "u1" THEN n ELSE 1]
        /\ notification =
             [i \in 1..(n + 1) |->
                NotificationRow(IF i = 1 THEN "u2" ELSE "u1", "MENTION", "r1", i)]
        /\ siteUser = {}
        /\ del = [p \in DelProcs |-> IdleDel]
        /\ lastRes = NoRes
        /\ feed = NoFeed

\* due dates around the day boundaries, and one among the stored rows
FeedDueDates == {Null, 2, Day - 1, Day, 2 * Day - 1, 2 * Day}

NextFeed ==
    \/ NextDay
    \/ \E u \in Actors : GetNotifications(u)
    \/ \E u \in Actors : MarkAllRead(u)
    \/ \E dueDate \in FeedDueDates : PatchDueDate("u1", "r1", dueDate, TRUE)
    \/ \E status \in {"inProgress", "done"} :
          PatchStatus("u1", "r1", status, TRUE)
    \/ PostComment("u1", "r1", TRUE)

SpecFeed == InitFeed /\ [][NextFeed]_vars

\* ----------------------------------------------------------------- delete
\* POST /api/site/:slug/pin: the upsert of the caller's SiteUser row
PinSite(slug) ==
    /\ slug \in DOMAIN sites
    /\ siteUser' = siteUser \cup {slug}
    /\ UNCHANGED <<clock, qa, activity, comment, notification, del, lastRes,
                   feed>>
    /\ UNCHANGED <<now, teams, members, invites, join, redeemed, planVars>>

\* the transactions that have deleted a row and not yet ended
InFlight(p) == del[p].pc \in {"deleted", "counted"}

\* READ COMMITTED: a statement of transaction p sees the committed rows and
\* the transaction's own changes
VisibleReports(p) ==
    IF InFlight(p) THEN DOMAIN qa \ {del[p].id} ELSE DOMAIN qa

\* the transaction ends: the response, and nothing else is kept
DoneDel(r, status) ==
    [IdleDel EXCEPT !.pc = "done", !.id = r.id, !.siteId = r.siteId,
                    !.deleteSite = r.deleteSite /\ status = 200,
                    !.alone = r.alone, !.status = status]

\* another request is running: neither is alone
Overlap(d, p) ==
    [q \in DOMAIN d |->
       IF q # p /\ d[q].pc \notin {"idle", "done"}
       THEN [d[q] EXCEPT !.alone = FALSE] ELSE d[q]]

\* DELETE /api/report/:id: $transaction begins, tx.qAReport.findUnique
\* (requests are numbered in the order they arrive)
DelFind(p, id) ==
    /\ del[p].pc = "idle"
    /\ \A q \in DelProcs : q < p => del[q].pc # "idle"
    /\ LET alone == \A q \in DelProcs \ {p} : del[q].pc \in {"idle", "done"}
           r == [IdleDel EXCEPT !.id = id, !.alone = alone]
       IN IF id \notin DOMAIN qa
          THEN del' = [del EXCEPT ![p] = DoneDel(r, 404)]
          ELSE del' = [Overlap(del, p) EXCEPT
                         ![p] = [r EXCEPT !.pc = "found",
                                          !.siteId = qa[id].siteId]]
    /\ UNCHANGED <<clock, qa, activity, comment, notification, siteUser,
                   lastRes, feed>>
    /\ UNCHANGED <<now, teams, members, invites, join, redeemed, planVars>>

\* tx.qAReport.delete: waits for the row lock of a transaction that has
\* deleted the row; fails (P2025) when the row is gone
DelDelete(p) ==
    /\ del[p].pc = "found"
    /\ \A q \in DelProcs \ {p} : ~(InFlight(q) /\ del[q].id = del[p].id)
    /\ IF del[p].id \notin DOMAIN qa
       THEN del' = [del EXCEPT ![p] = DoneDel(del[p], 500)]
       ELSE del' = [del EXCEPT ![p].pc = "deleted"]
    /\ UNCHANGED <<clock, qa, activity, comment, notification, siteUser,
                   lastRes, feed>>
    /\ UNCHANGED <<now, teams, members, invites, join, redeemed, planVars>>

\* tx.qAReport.count({ where: { siteId } }) and, at 0, tx.site.delete, which
\* fails on a missing row (P2025) and on SiteUser_siteId_fkey (RESTRICT)
DelCount(p) ==
    /\ del[p].pc = "deleted"
    /\ LET siteId == del[p].siteId
           remaining ==
             Cardinality({id \in VisibleReports(p) : qa[id].siteId = siteId})
       IN IF siteId = "null" \/ remaining # 0
          THEN del' = [del EXCEPT ![p].pc = "counted"]
          ELSE IF siteId \notin DOMAIN sites \/ siteId \in siteUser
          THEN del' = [del EXCEPT ![p] = DoneDel(del[p], 500)]
          ELSE del' = [del EXCEPT ![p].pc = "counted", ![p].deleteSite = TRUE]
    /\ UNCHANGED <<clock, qa, activity, comment, notification, siteUser,
                   lastRes, feed>>
    /\ UNCHANGED <<now, teams, members, invites, join, redeemed, planVars>>

\* Activity_reportId_fkey, ON DELETE SET NULL
ActivitySetNull(act, id) ==
    LET Cut(a) == IF a.reportId = id THEN [a EXCEPT !.reportId = "null"] ELSE a
        rows == {Cut(a) : a \in DOMAIN act}
    IN [r \in rows |-> CountRows(act, {a \in DOMAIN act : Cut(a) = r})]

\* the transaction commits: the report goes, with its comments
\* (Comment_reportId_fkey, CASCADE) and the references to it
\* (Notification_reportId_fkey, SET NULL); the site goes if it was deleted,
\* with the references to it (QAReport_siteId_fkey, SET NULL)
DelCommit(p) ==
    /\ del[p].pc = "counted"
    /\ LET id == del[p].id
           gone == del[p].deleteSite
           siteId == del[p].siteId
       IN /\ qa' = [x \in DOMAIN qa \ {id} |->
                      IF gone /\ qa[x].siteId = siteId
                      THEN [qa[x] EXCEPT !.siteId = "null"] ELSE qa[x]]
          /\ sites' = IF gone
                      THEN [d \in DOMAIN sites \ {siteId} |-> sites[d]]
                      ELSE sites
          /\ comment' = [c \in {x \in DOMAIN comment : x.reportId # id} |->
                           comment[c]]
          /\ notification' =
               [i \in 1..Len(notification) |->
                  IF notification[i].reportId = id
                  THEN [notification[i] EXCEPT !.reportId = "null"]
                  ELSE notification[i]]
          /\ activity' = ActivitySetNull(activity, id)
    /\ del' = [del EXCEPT ![p] = DoneDel(del[p], 200)]
    /\ UNCHANGED <<clock, siteUser, lastRes, feed>>
    /\ UNCHANGED <<now, teams, members, invites, join, redeemed,
                   subscription, reports, rep>>

\* r1 and perhaps r2 on site d1, r3 on site d2, each with a comment and
\* its notification
InitDelete ==
    \E two \in BOOLEAN :
        /\ now = 0
        /\ teams = {}
        /\ members = << >>
        /\ invites = << >>
        /\ join = [p \in JoinProcs |-> IdleJoin]
        /\ redeemed = {}
        /\ subscription = [t \in TeamSet |-> NoSub]
        /\ sites = [d \in {"d1", "d2"} |-> [teamId |-> "t1"]]
        /\ reports = << >>
        /\ rep = [p \in RepProcs |-> IdleRep]
        /\ clock = 0
        /\ qa = [id \in (IF two THEN {"r1", "r2", "r3"} ELSE {"r1", "r3"}) |->
                   QARow("u1", IF id = "r3" THEN "d2" ELSE "d1", 0)]
        /\ activity = << >>
        /\ comment = [c \in {CommentRow("r1", "u2")} |-> 1]
        /\ notification = <<NotificationRow("u2", "MENTION", "r1", 0)>>
        /\ siteUser = {}
        /\ del = [p \in DelProcs |-> IdleDel]
        /\ lastRes = NoRes
        /\ feed = NoFeed

NextDelete ==
    \/ \E slug \in {"d1", "d2"} : PinSite(slug)
    \/ \E p \in DelProcs, id \in {"r1", "r2", "r3", UnknownReport} :
          DelFind(p, id)
    \/ \E p \in DelProcs : DelDelete(p)
    \/ \E p \in DelProcs : DelCount(p)
    \/ \E p \in DelProcs : DelCommit(p)

SpecDelete == InitDelete /\ [][NextDelete]_vars

\* --------------------------------------------------------- authentication
\* jwt.sign({ id, ... }, JWT_SECRET, { expiresIn: '7d' }): the payload's id,
\* the key that signed it and the time it expires
JwtSecret == "JWT_SECRET"
Token(u, key, exp) == [id |-> u, key |-> key, exp |-> exp]

\* a request without an Authorization header
NoToken == Token("none", "none", 0)

\* expiresIn: '7d'
TokenTtl == 7 * Day

\* the tokens requests carry: none, a token of u1, a token of u2 that expires
\* at time 1, and one signed with another key
Tokens ==
    {NoToken, Token("u1", JwtSecret, TokenTtl), Token("u2", JwtSecret, 1),
     Token("u2", "other", TokenTtl)}

\* jwt.verify(token, JWT_SECRET): err is null
Verify(token, t) == token.key = JwtSecret /\ t < token.exp

\* authenticateToken: the status it answers, or 0 when it calls next()
authenticateToken(token, t) ==
    IF token = NoToken THEN 401
    ELSE IF ~Verify(token, t) THEN 403
    ELSE 0

\* res.sendStatus of authenticateToken: the handler does not run
Reject(op, id, status) ==
    /\ lastRes' = Res(op, Anonymous, id, NoBody, status, NoBody, FALSE)
    /\ UNCHANGED <<clock, qa, activity, comment, notification, siteUser, del,
                   feed>>
    /\ UNCHANGED <<now, teams, members, invites, join, redeemed, planVars>>

\* PATCH /api/report/:id/status, authenticateToken and the handler
ReqPatchStatus(token, id, status) ==
    IF authenticateToken(token, clock) # 0
    THEN Reject("status", id, authenticateToken(token, clock))
    ELSE PatchStatus(token.id, id, status, TRUE)

\* PATCH /api/report/:id: no middleware, the token is not read
ReqPatchReport(token, id, status) == PatchReport(id, status)

\* POST /teams/:teamId/invite-link: no middleware, the token is not read
ReqInviteLink(token, t, r) == CreateInviteLink(t, r)

\* DELETE /api/report/:id: no middleware, the token is not read
ReqDeleteReport(token, p, id) == DelFind(p, id)

\* DELETE /api/uploads: no middleware; readdir, the unlinks, deleteMany of
\* every QAReport row (with the ON DELETE actions of the rows that refer to
\* them), then req.user.id of an undefined req.user throws into the catch
DeleteUploads(token, readdirOk) ==
    /\ IF ~readdirOk
       THEN UNCHANGED <<qa, comment, notification, activity>>
       ELSE /\ qa' = << >>
            /\ comment' = << >>
            /\ notification' =
                 [i \in 1..Len(notification) |->
                    [notification[i] EXCEPT !.reportId = "null"]]
            /\ activity' =
                 LET Cut(a) == [a EXCEPT !.reportId = "null"]
                     rows == {Cut(a) : a \in DOMAIN activity}
                 IN [r \in rows |->
                       CountRows(activity, {a \in DOMAIN activity : Cut(a) = r})]
    /\ lastRes' = Res("uploads", Anonymous, "null", NoBody, 500, NoBody, FALSE)
    /\ UNCHANGED <<clock, siteUser, del, feed>>
    /\ UNCHANGED <<now, teams, members, invites, join, redeemed, planVars>>

\* team t1 with its owner u1, site d1 with the reports r1 of u1 and r2 of u2
InitAuth ==
    /\ now = 0
    /\ teams = {"t1"}
    /\ members = [m \in {MemberRow("u1", "t1", "owner")} |-> 1]
    /\ invites = << >>
    /\ join = [p \in JoinProcs |-> IdleJoin]
    /\ redeemed = {}
    /\ subscription = [t \in TeamSet |-> NoSub]
    /\ sites = [d \in {"d1"} |-> [teamId |-> "t1"]]
    /\ reports = << >>
    /\ rep = [p \in RepProcs |-> IdleRep]
    /\ clock = 0
    /\ qa = [id \in ReportIds |->
               QARow(IF id = "r1" THEN "u1" ELSE "u2", "d1", 0)]
    /\ activity = << >>
    /\ comment = << >>
    /\ notification = << >>
    /\ siteUser = {}
    /\ del = [p \in DelProcs |-> IdleDel]
    /\ lastRes = NoRes
    /\ feed = NoFeed

NextAuth ==
    \/ Advance
    \/ \E token \in Tokens : ReqPatchStatus(token, "r1", "done")
    \/ \E token \in Tokens, id \in {"r1", UnknownReport} :
          ReqPatchReport(token, id, "inProgress")
    \/ \E token \in Tokens, r \in InviteRoles : ReqInviteLink(token, "t1", r)
    \/ \E token \in Tokens, readdirOk \in BOOLEAN :
          DeleteUploads(token, readdirOk)
    \/ \E token \in Tokens : ReqDeleteReport(token, 1, "r2")
    \/ DelDelete(1)
    \/ DelCount(1)
    \/ DelCommit(1)

SpecAuth == InitAuth /\ [][NextAuth]_vars

\* ---------------------------------------------------------------- billing
\* STRIPE_WEBHOOK_SECRET, and the key a stripe-signature header was made with
WebhookSecret == "STRIPE_WEBHOOK_SECRET"
Signatures == {WebhookSecret, "other"}

\* the price ids of the events: a configured one and one that is not
BillingPrices == {"PRICE_FREE_MONTHLY", "price_other"}

\* event.type: the four the switch names and one it does not
EventTypes ==
    {"checkout.session.completed", "customer.subscription.created",
     "customer.subscription.updated", "customer.subscription.deleted",
     "invoice.paid"}

\* (mutation) the signature is not verified
constructEventUnverified(sig) == TRUE

\* stripe.webhooks.constructEvent(req.body, sig, STRIPE_WEBHOOK_SECRET) does
\* not throw
constructEvent(sig) == sig = WebhookSecret

\* plan: 'FREE' of the customer.subscription.deleted case
DeletedPlan == "FREE"

\* the event of a webhook request: its signature, type, metadata.teamId and
\* the subscription's price and status
Event(sig, type, t, priceId, status) ==
    [sig |-> sig, type |-> type, teamId |-> t, priceId |-> priceId,
     status |-> status]

\* POST /billing/webhook.  Status 0: a rejected promise of prisma, which the
\* handler does not catch, so that no response is sent.
BillingWebhook(sig, type, t, priceId, status) ==
    LET event == Event(sig, type, t, priceId, status)
        Answer(code) == Res("webhook", Anonymous, t, event, code, NoBody, FALSE)
    IN
    /\ IF ~constructEvent(sig)
       THEN /\ lastRes' = Answer(400)
            /\ UNCHANGED subscription
       ELSE IF type \in {"checkout.session.completed",
                         "customer.subscription.created",
                         "customer.subscription.updated"}
       THEN IF t \notin teams
            THEN \* where: { teamId: undefined }, or Subscription_teamId_fkey
                 /\ lastRes' = Answer(0)
                 /\ UNCHANGED subscription
            ELSE /\ subscription' =
                      [subscription EXCEPT
                         ![t] = [plan |-> mapPriceToPlan(priceId),
                                 status |-> status]]
                 /\ lastRes' = Answer(200)
       ELSE IF type = "customer.subscription.deleted"
       THEN IF t \in teams /\ subscription[t] # NoSub /\ DeletedPlan \in Plans
            THEN /\ subscription' =
                      [subscription EXCEPT
                         ![t] = [plan |-> DeletedPlan, status |-> "canceled"]]
                 /\ lastRes' = Answer(200)
            ELSE \* no row to update, or 'FREE' is no value of the enum Plan
                 /\ lastRes' = Answer(0)
                 /\ UNCHANGED subscription
       ELSE /\ lastRes' = Answer(200)
            /\ UNCHANGED subscription
    /\ UNCHANGED <<clock, qa, activity, comment, notification, siteUser, del,
                   feed>>
    /\ UNCHANGED <<now, teams, members, invites, join, redeemed, sites,
                   reports, rep>>

\* the teams t1 and t2, without Subscription rows
InitBilling ==
    /\ now = 0
    /\ teams = {"t1", "t2"}
    /\ members = [m \in {MemberRow("u1", "t1", "owner"),
                         MemberRow("u2", "t2", "owner")} |-> 1]
    /\ invites = << >>
    /\ join = [p \in JoinProcs |-> IdleJoin]
    /\ redeemed = {}
    /\ subscription = [t \in TeamSet |-> NoSub]
    /\ sites = << >>
    /\ reports = << >>
    /\ rep = [p \in RepProcs |-> IdleRep]
    /\ NoReportOps

NextBilling ==
    \E sig \in Signatures, type \in EventTypes, t \in BilledTeams \cup {NoTeam},
       priceId \in BillingPrices, status \in Statuses :
       BillingWebhook(sig, type, t, priceId, status)

SpecBilling == InitBilling /\ [][NextBilling]_vars

\* ---------------------------------------------------------------- invites
\* req.body.role of a request that names no role
NoRole == "undefined"

\* (mutation) the default of role is the owner's role
DefaultRoleOwner(role) == IF role = NoRole THEN "owner" ELSE role

\* const { role = 'member' } = req.body
DefaultRole(role) == IF role = NoRole THEN "member" ELSE role

\* User.email
Email(u) == <<"mail", u>>

\* the place of a code in the order the codes are handed out, which is the
\* order of createdAt
CodeIndex(c) == CHOOSE i \in 1..Len(Codes) : Codes[i] = c

\* prisma.teamInvite.create({ data: { teamId, code, expiresAt, role, email } })
CreateInvite(inv, c, t, r, e, t0) ==
    [x \in DOMAIN inv \cup {c} |->
       IF x = c THEN InviteRow(c, t, r, e, t0 + InviteTtl) ELSE inv[x]]

\* POST /teams/:teamId/invite-link with req.body.role
PostInviteLink(t, role) == CreateInviteLink(t, DefaultRole(role))

\* prisma.teamInvite.findFirst({ where: { teamId, expiresAt: { gt: new
\* Date() } }, orderBy: { createdAt: 'desc' } }): the code found, or
\* UnknownCode
FindFirstInvite(inv, t, t0) ==
    LET found == {c \in DOMAIN inv :
                    inv[c].teamId = t /\ inv[c].expiresAt > t0}
    IN IF found = {} THEN UnknownCode
       ELSE CHOOSE c \in found :
              \A x \in found : CodeIndex(x) <= CodeIndex(c)

\* GET /teams/:teamId/invite-link
GetInviteLink(t, role) ==
    /\ t \in teams
    /\ LET invite == FindFirstInvite(invites, t, now)
       IN IF invite # UnknownCode
          THEN /\ lastRes' = Res("getInviteLink", Anonymous, t, [role |-> role],
                                 200, [code |-> invite], FALSE)
               /\ UNCHANGED invites
          ELSE /\ Cardinality(DOMAIN invites) < Len(Codes)
               /\ LET code == Codes[Cardinality(DOMAIN invites) + 1]
                  IN /\ invites' = CreateInvite(invites, code, t,
                                                DefaultRole(role), NoEmail, now)
                     /\ lastRes' = Res("getInviteLink", Anonymous, t,
                                       [role |-> role], 200, [code |-> code],
                                       FALSE)
    /\ UNCHANGED <<clock, qa, activity, comment, notification, siteUser, del,
                   feed>>
    /\ UNCHANGED <<now, teams, members, join, redeemed, planVars>>

\* POST /teams/:teamId/invite-email: authenticateToken, requireActivePlan on
\* the team of the body or of the caller's first membership, then the
\* handler: the invite bound to the email, and the mail sent
InviteEmail(actor, t, email, role, gateTeam) ==
    /\ t \in teams
    /\ gateTeam \in GateTeamIds(NoTeam, members, actor)
    /\ LET g == requireActivePlan(gateTeam, subscription[gateTeam],
                                  TotalReports(reports, sites, gateTeam),
                                  TeamMembers(members, gateTeam),
                                  Cardinality(TeamSites(sites, gateTeam)))
           body == [email |-> email, role |-> role]
       IN IF gateTeam = NoTeam
          THEN /\ lastRes' = Res("inviteEmail", actor, t, body, 400, NoBody, FALSE)
               /\ UNCHANGED invites
          ELSE IF g.resp # "next"
          THEN /\ lastRes' = Res("inviteEmail", actor, t, body, 403, NoBody, FALSE)
               /\ UNCHANGED invites
          ELSE /\ Cardinality(DOMAIN invites) < Len(Codes)
               /\ LET code == Codes[Cardinality(DOMAIN invites) + 1]
                  IN /\ invites' = CreateInvite(invites, code, t,
                                                DefaultRole(role), email, now)
                     /\ lastRes' = Res("inviteEmail", actor, t, body, 200,
                                       [code |-> code], FALSE)
    /\ UNCHANGED <<clock, qa, activity, comment, notification, siteUser, del,
                   feed>>
    /\ UNCHANGED <<now, teams, members, join, redeemed, planVars>>

\* team t1, on the free plan, with its owner u1 and the member u2
InitInvite ==
    /\ now = 0
    /\ teams = {"t1"}
    /\ members = [m \in {MemberRow("u1", "t1", "owner"),
                         MemberRow("u2", "t1", "member")} |-> 1]
    /\ invites = << >>
    /\ join = [p \in JoinProcs |-> IdleJoin]
    /\ redeemed = {}
    /\ subscription = [t \in TeamSet |-> NoSub]
    /\ sites = << >>
    /\ reports = << >>
    /\ rep = [p \in RepProcs |-> IdleRep]
    /\ NoReportOps

\* the users who redeem, their two POST /teams/join requests, and the
\* address the mailed invites are bound to
Invitees == {"u3", "u4"}
RedeemProcs == {1, 2}
InvitedEmail == Email("u4")

NextInvite ==
    \/ Tick
    \/ \E role \in {NoRole, "owner"} : PostInviteLink("t1", role)
    \/ \E role \in {NoRole} : GetInviteLink("t1", role)
    \/ \E gateTeam \in GateTeamIds(NoTeam, members, "u1") :
          InviteEmail("u1", "t1", InvitedEmail, NoRole, gateTeam)
    \/ \E p \in RedeemProcs, u \in Invitees, c \in DOMAIN invites :
          JoinFindInvite(p, u, c)
    \/ \E p \in RedeemProcs : JoinFindMember(p)
    \/ \E p \in RedeemProcs : JoinCommit(p)

SpecInvite == InitInvite /\ [][NextInvite]_vars

\* ------------------------------------------------------------------ claims
JoinErrors == {"NotFound", "Expired", "AlreadyUsed"}

\* request p arrives in this step: its first await and the checks after it
Arrives(p) == join[p].pc = "idle" /\ join'[p].pc # "idle"

\* the users whose redemption of code c has committed
RedeemedBy(c) == {x[2] : x \in {y \in redeemed : y[1] = c}}

\* C1: for every invite code, all redemption requests together create exactly
\* one TeamMember row (a code is redeemed at most once), however they interleave
C1_ExactlyOneRedemption ==
    \A c \in DOMAIN invites : Cardinality(RedeemedBy(c)) <= 1

\* C2: redemption is all-or-nothing in every reachable state: an invite whose
\* redemption created a TeamMember row is marked used, and an invite marked
\* used has a redemption whose TeamMember row exists
C2_RedemptionAtomic ==
    \A c \in DOMAIN invites :
        /\ RedeemedBy(c) # {} => invites[c].used
        /\ invites[c].used =>
              \E u \in RedeemedBy(c) : RowsOf(members, u, invites[c].teamId) > 0

\* a transaction failed on its insert and was rolled back: its invite is
\* still unused
C2_Witness ==
    \E p \in JoinProcs :
        /\ join[p].resp = "Error"
        /\ ~invites[join[p].code].used

\* C3: once a user has redeemed a code, a second POST /teams/join by the same
\* user with the same code is answered without an error and creates no row
C3_SecondJoinIdempotent ==
    [][\A p \in JoinProcs :
          (Arrives(p) /\ join'[p].userId \in RedeemedBy(join'[p].code))
          => /\ join'[p].resp \notin JoinErrors
             /\ members' = members]_vars

\* C4 as stated: once a user has redeemed a code, a later POST /teams/join with
\* that code by another user who is no member of the team is answered
\* already-used, creates no row and leaves the invite as it is
C4_LaterJoinAlreadyUsed ==
    [][\A p \in JoinProcs :
          (/\ Arrives(p)
           /\ RedeemedBy(join'[p].code) \ {join'[p].userId} # {}
           /\ ~FindMember(members, invites[join'[p].code].teamId, join'[p].userId))
          => /\ join'[p].resp = "AlreadyUsed"
             /\ members' = members
             /\ invites' = invites]_vars

\* C4 as amended: such a request fails, with the already-used error while the
\* invite has not expired and with the expired error once it has; it creates
\* no row and leaves the invite as it is
C4_LaterJoinFails ==
    [][\A p \in JoinProcs :
          (/\ Arrives(p)
           /\ RedeemedBy(join'[p].code) \ {join'[p].userId} # {}
           /\ ~FindMember(members, invites[join'[p].code].teamId, join'[p].userId))
          => /\ join'[p].resp = IF invites[join'[p].code].expiresAt < now
                                THEN "Expired" ELSE "AlreadyUsed"
             /\ members' = members
             /\ invites' = invites]_vars

\* another user was answered already-used on a code that was redeemed
C4_Witness ==
    \E p \in JoinProcs :
        /\ join[p].pc = "done"
        /\ join[p].resp = "AlreadyUsed"
        /\ RedeemedBy(join[p].code) \ {join[p].userId} # {}
        /\ ~FindMember(members, invites[join[p].code].teamId, join[p].userId)

\* C5: POST /teams/join answers the first error that applies, in the order
\* unknown code, expired, already used; a request answered with one of them
\* creates no row and changes no invite, so a request that finds the invite
\* past its expiresAt yields no membership
C5_ErrorOrder ==
    [][\A p \in JoinProcs :
          Arrives(p) =>
            LET c == join'[p].code IN
            /\ c \notin DOMAIN invites => join'[p].resp = "NotFound"
            /\ (c \in DOMAIN invites /\ now > invites[c].expiresAt)
                  => join'[p].resp = "Expired"
            /\ (c \in DOMAIN invites /\ now <= invites[c].expiresAt
                  /\ invites[c].used) => join'[p].resp = "AlreadyUsed"
            /\ (c \in DOMAIN invites /\ now <= invites[c].expiresAt
                  /\ ~invites[c].used) => join'[p].resp \notin JoinErrors
            /\ join'[p].resp \in JoinErrors
                  => /\ join'[p].pc = "done"
                     /\ members' = members
                     /\ invites' = invites]_vars

\* a request was answered expired on an invite that is used as well
C5_Witness ==
    \E p \in JoinProcs :
        /\ join[p].resp = "Expired"
        /\ invites[join[p].code].used

\* C6: in every reachable state there is at most one TeamMember row for each
\* (user, team) pair
C6_OneRowPerUserTeam ==
    \A u \in Users, t \in teams : RowsOf(members, u, t) <= 1

\* one user redeemed two codes of one team concurrently: one request joined,
\* the other failed on the unique index
C6_Witness ==
    \E p, q \in JoinProcs :
        /\ join[p].resp = "Joined"
        /\ join[q].resp = "Error"
        /\ join[p].userId = join[q].userId
        /\ join[p].code # join[q].code
        /\ invites[join[p].code].teamId = invites[join[q].code].teamId

\* request p reaches requireActivePlan in this step
GateArrives(p) == rep[p].pc = "idle" /\ rep'[p].pc # "idle"

\* the effective plan and status of a Subscription row, or of none
PlanOf(sub) == IF sub = NoSub THEN "free" ELSE sub.plan
StatusOf(sub) == IF sub = NoSub THEN "active" ELSE sub.status

\* the plan table of the specification (section 4.1); Infinity is "unlimited"
Ceilings(plan) ==
    CASE plan = "free" -> [reports |-> 50, members |-> 3, sites |-> 3]
      [] plan = "starter" -> [reports |-> 1000, members |-> 10, sites |-> 5]
      [] plan = "team" -> [reports |-> 5000, members |-> 50, sites |-> Infinity]
      [] plan = "agency" ->
            [reports |-> Infinity, members |-> Infinity, sites |-> Infinity]

\* a request past the gate whose handler keeps the plan context
KeepsPlan(r) == r.pc = "handler" /\ r.multipart /\ r.userTeamId # NoTeam

\* C7: requireActivePlan reports the first failing check in the order
\* (a) paid plan and inactive subscription: 402, (b) reports >= ceiling,
\* (c) members > ceiling, (d) sites >= ceiling; only when all four pass does
\* the handler run, with the plan context attached
C7_GateOrder ==
    [][\A p \in RepProcs :
          (GateArrives(p) /\ rep'[p].gateTeam \in teams) =>
            LET t == rep'[p].gateTeam
                plan == PlanOf(subscription[t])
                a == plan # "free" /\ StatusOf(subscription[t]) # "active"
                b == TotalReports(reports, sites, t) >= PLAN_LIMITS(plan).reports
                c == TeamMembers(members, t) > PLAN_LIMITS(plan).members
                d == Cardinality(TeamSites(sites, t)) >= PLAN_LIMITS(plan).sites
            IN /\ a => rep'[p].resp = "402 subscription inactive"
               /\ (~a /\ b) => rep'[p].resp = "403 report limit"
               /\ (~a /\ ~b /\ c) => rep'[p].resp = "403 member limit"
               /\ (~a /\ ~b /\ ~c /\ d) => rep'[p].resp = "403 site limit"
               /\ (a \/ b \/ c \/ d) => rep'[p].pc = "done"
               /\ (~a /\ ~b /\ ~c /\ ~d) =>
                     /\ rep'[p].pc = "handler"
                     /\ KeepsPlan(rep'[p]) =>
                           /\ rep'[p].teamPlan.teamId = t
                           /\ rep'[p].teamPlan.plan = plan]_vars

\* a request was answered report-limit for a team that is over its member
\* ceiling as well
C7_Witness ==
    \E p \in RepProcs :
        /\ rep[p].resp = "403 report limit"
        /\ rep[p].gateTeam \in teams
        /\ LET t == rep[p].gateTeam
               limits == PLAN_LIMITS(PlanOf(subscription[t]))
           IN /\ TotalReports(reports, sites, t) >= limits.reports
              /\ TeamMembers(members, t) > limits.members

C9_EffectivePlan ==
    [][\A p \in RepProcs :
          (GateArrives(p) /\ rep'[p].gateTeam \in teams) =>
            LET t == rep'[p].gateTeam
                sub == subscription[t]
                limits == IF sub = NoSub
                          THEN [reports |-> 50, members |-> 3, sites |-> 3]
                          ELSE Ceilings(sub.plan)
                total == TotalReports(reports, sites, t)
                nm == TeamMembers(members, t)
                ns == Cardinality(TeamSites(sites, t))
                inactive == sub # NoSub /\ sub.plan # "free" /\ sub.status # "active"
            IN /\ sub = NoSub => rep'[p].resp # "402 subscription inactive"
               /\ ~inactive =>
                    (rep'[p].pc = "handler"
                       <=> (total < limits.reports /\ nm <= limits.members
                              /\ ns < limits.sites))
               /\ KeepsPlan(rep'[p]) =>
                    /\ rep'[p].teamPlan.plan = (IF sub = NoSub THEN "free" ELSE sub.plan)
                    /\ rep'[p].teamPlan.limits = limits
                    /\ rep'[p].teamPlan.totalReports = total
                    /\ rep'[p].teamPlan.members = nm
                    /\ rep'[p].teamPlan.sites = ns]_vars

\* two requests of one run were gated for the same team under different
\* plans, the first one without a Subscription row
C9_Witness ==
    \E p, q \in RepProcs :
        /\ rep[p].resp = "200 report"
        /\ rep[p].teamPlan.plan = "free"
        /\ rep[p].teamPlan.limits = [reports |-> 50, members |-> 3, sites |-> 3]
        /\ KeepsPlan(rep[q])
        /\ rep[q].gateTeam = rep[p].gateTeam
        /\ rep[q].teamPlan.plan = "starter"
        /\ rep[q].teamPlan.limits.reports = 1000
        /\ rep[q].teamPlan.totalReports = rep[p].teamPlan.totalReports + 1

\* the reports created by the requests of the run on the sites of team t
CreatedOn(t) ==
    {q \in RepProcs : rep[q].resp = "200 report"
                        /\ rep[q].domain \in TeamSites(sites, t)}

\* C10: the gate and the insert are separate steps, so a team can end above
\* the ceiling its requests were gated against; with two requests it ends
\* at most one report above it
C10_ExceededByAtMostOne ==
    \A p \in RepProcs :
        (rep[p].teamPlan # NoPlan /\ rep[p].teamPlan.limits.reports # Infinity) =>
          LET t == rep[p].gateTeam
              ceiling == rep[p].teamPlan.limits.reports
              total == TotalReports(reports, sites, t)
          IN /\ total <= ceiling - 1 + Cardinality(CreatedOn(t))
             /\ total <= ceiling + 1

\* both requests passed the gate one below the ceiling and both created a
\* report: the team holds ceiling + 1 reports
C10_Witness ==
    \E t \in teams :
        /\ \A p \in RepProcs :
              /\ rep[p].resp = "200 report"
              /\ rep[p].gateTeam = t
              /\ rep[p].teamPlan.totalReports = rep[p].teamPlan.limits.reports - 1
              /\ rep[p].domain \in TeamSites(sites, t)
        /\ TotalReports(reports, sites, t)
              = PLAN_LIMITS(PlanOf(subscription[t])).reports + 1

\* ------------------------------------------------- claims: report changes
ChangeOps == {"status", "priority", "due_date"}

\* this step is a status, priority or due-date change that was carried out
Changes ==
    /\ lastRes'.op \in ChangeOps
    /\ lastRes'.status = 200
    /\ <<qa, activity, lastRes>>' # <<qa, activity, lastRes>>

\* the Activity row the change of this step is to leave
ChangeRow ==
    LET r == lastRes'
    IN ActivityRow(qa[r.id].userId, r.userId, r.op, r.id,
                   IF r.op = "status" THEN r.body.status ELSE "null",
                   IF r.op = "priority" THEN r.body.priority ELSE "null",
                   IF r.op = "due_date" THEN r.body.dueDate ELSE Null)

\* C11: a status, priority or due-date change by the report's owner writes
\* no Activity row; a change by another user writes exactly one, addressed
\* to the owner (userId) and authored by the acting user (actorId), unless
\* the write itself fails
C11_ActivityOnlyForOthers ==
    [][Changes =>
         IF lastRes'.userId = qa[lastRes'.id].userId
         THEN activity' = activity
         ELSE IF lastRes'.logError
         THEN activity' = activity
         ELSE /\ activity' = AddRow(activity, ChangeRow)
              /\ BagSize(activity') = BagSize(activity) + 1
              /\ ChangeRow.userId = qa[lastRes'.id].userId
              /\ ChangeRow.actorId = lastRes'.userId]_vars

\* u2 changed u1's report and u1 changed it too: one row, for u1, by u2
C11_Witness ==
    /\ lastRes.op \in ChangeOps
    /\ lastRes.status = 200
    /\ lastRes.userId = "u1"
    /\ qa["r1"].userId = "u1"
    /\ BagSize(activity) = 1
    /\ \E a \in DOMAIN activity :
          a.userId = "u1" /\ a.actorId = "u2" /\ a.reportId = "r1"

C13_MentionGoesToOwner ==
    [][(lastRes'.op = "comment" /\ lastRes'.status = 200
          /\ comment' # comment) =>
         LET owner == qa[lastRes'.id].userId
             written == SubSeq(notification', Len(notification) + 1,
                               Len(notification'))
         IN IF lastRes'.userId # owner
            THEN /\ Len(written) = 1
                 /\ written[1].userId = owner
            ELSE \A i \in 1..Len(written) : written[i].userId # owner]_vars

\* ---------------------------------------------------- claims: resolution
\* C16: setting a report that is already done, with resolvedAt and duration
\* stored, to done again leaves resolvedAt and duration as the first
\* transition stored them
C16_SecondDoneKeepsDuration ==
    [][\A id \in DOMAIN qa \cap DOMAIN qa' :
          (/\ qa[id].status = "done"
           /\ qa[id].resolvedAt # Null
           /\ lastRes'.id = id
           /\ lastRes'.op \in {"report", "status"}
           /\ lastRes'.status = 200
           /\ lastRes'.body.status = "done") =>
             /\ qa'[id].resolvedAt = qa[id].resolvedAt
             /\ qa'[id].duration = qa[id].duration]_vars

\* C17: in every reachable state a report whose status is done has resolvedAt
\* and duration set, with duration = round((resolvedAt - timestamp) / 60000)
C17_DoneHasDuration ==
    \A id \in DOMAIN qa :
        qa[id].status = "done" =>
          /\ qa[id].resolvedAt # Null
          /\ qa[id].duration # Null
          /\ qa[id].duration = RoundMinutes(qa[id].resolvedAt - qa[id].timestamp)

\* ------------------------------------------------------- claims: archive
\* C18: every report has archived = TRUE exactly when archivedAt is set, and
\* an archive or un-archive request of user U for a slug changes only the
\* reports of U that carry the slug
C18_ArchivedIffStamped ==
    /\ [](\A id \in DOMAIN qa : qa[id].archived <=> qa[id].archivedAt # Null)
    /\ [][qa' # qa =>
            /\ lastRes'.op = "archive"
            /\ DOMAIN qa' = DOMAIN qa
            /\ \A id \in DOMAIN qa :
                  (qa[id].slug # lastRes'.id \/ qa[id].userId # lastRes'.userId)
                     => qa'[id] = qa[id]]_vars

\* u1 archived d1 and un-archived it later, u2 archived d1 in between: r2 is
\* archived, r1 is not, r3 was never touched
C18_Witness ==
    /\ lastRes.op = "archive" /\ lastRes.userId = "u1"
    /\ lastRes.status = 200
    /\ lastRes.body.archived = FALSE
    /\ clock > 0
    /\ qa["r2"].archived /\ qa["r2"].archivedAt > 0
    /\ ~qa["r1"].archived /\ qa["r1"].archivedAt = Null
    /\ ~qa["r3"].archived

\* ---------------------------------------------------------- claims: feed
\* what GET /api/notifications returns to user u in the current state
FeedOf(u) == Notifications(notification, qa, u, clock)

\* the positions of a feed that hold the stored row i / the derived entry of
\* the given type for report id
StoredAt(f, i) == {k \in 1..Len(f) : f[k].n = i}
DerivedAt(f, type, id) ==
    {k \in 1..Len(f) : f[k].type = type /\ f[k].reportId = id}

\* the rows of u in the Notification table
RowsFor(u) == {i \in 1..Len(notification) : notification[i].userId = u}

\* the rows of u created after row i / not before it
NewerThan(u, i) ==
    {j \in RowsFor(u) : notification[j].createdAt > notification[i].createdAt}
NotOlderThan(u, i) ==
    {j \in RowsFor(u) \ {i} :
        notification[j].createdAt >= notification[i].createdAt}

\* the derived entries of a feed are one per selected report, carry the due
\* date as timestamp and are unread; the feed is in descending order
DerivedAndOrder(u, f) ==
    /\ \A id \in DOMAIN qa :
          /\ Cardinality(DerivedAt(f, "TASK_OVERDUE", id))
                = (IF IsOverdue(qa[id], u, clock) THEN 1 ELSE 0)
          /\ Cardinality(DerivedAt(f, "TASK_DUE_TODAY", id))
                = (IF IsDueToday(qa[id], u, clock) THEN 1 ELSE 0)
    /\ \A k \in 1..Len(f) :
          f[k].type \in {"TASK_OVERDUE", "TASK_DUE_TODAY"} =>
             /\ ~f[k].read
             /\ f[k].reportId \in DOMAIN qa
             /\ f[k].createdAt = qa[f[k].reportId].dueDate
    /\ \A k \in 1..Len(f) - 1 : f[k].createdAt >= f[k + 1].createdAt

\* a stored entry is a row of u with its stored read flag
StoredAsStored(u, f) ==
    \A k \in 1..Len(f) :
        f[k].type = "MENTION" =>
           /\ f[k].n \in RowsFor(u)
           /\ f[k].read = notification[f[k].n].read
           /\ f[k].createdAt = notification[f[k].n].createdAt

C15_DerivedForOpenReports ==
    \A u \in Actors :
        LET f == FeedOf(u)
        IN \A id \in DOMAIN qa :
              LET derived == DerivedAt(f, "TASK_OVERDUE", id)
                               \cup DerivedAt(f, "TASK_DUE_TODAY", id)
              IN /\ qa[id].status = "done" => derived = {}
                 /\ derived # {} => qa[id].userId = u
                 /\ (/\ qa[id].userId = u
                     /\ qa[id].status # "done"
                     /\ qa[id].dueDate # Null
                     /\ qa[id].dueDate < StartOfDay(clock))
                       => DerivedAt(f, "TASK_OVERDUE", id) # {}

\* -------------------------------------------------------- claims: delete
\* request p ends in this step
DelEnds(p) == del[p].pc \notin {"idle", "done"} /\ del'[p].pc = "done"

\* the tables a deletion may touch
Store == <<qa, sites, comment, notification, activity, siteUser>>

\* C19: a DELETE of an unknown id is answered 404 and changes nothing; a
\* DELETE of the only report of its site removes the report and the site; a
\* DELETE of a report whose site has other reports removes that report only
\* (requests that run with no other DELETE beside them)
C19_DeleteLastRemovesSite ==
    [][\A p \in DelProcs :
          /\ (del[p].pc = "idle" /\ del'[p].pc # "idle"
                /\ del'[p].id \notin DOMAIN qa) =>
                /\ del'[p].pc = "done" /\ del'[p].status = 404
                /\ Store' = Store
          /\ (DelEnds(p) /\ del[p].alone /\ del[p].id \in DOMAIN qa) =>
               LET id == del[p].id
                   siteId == qa[id].siteId
                   others == {x \in DOMAIN qa \ {id} : qa[x].siteId = siteId}
               IN /\ del'[p].status = 200
                  /\ DOMAIN qa' = DOMAIN qa \ {id}
                  /\ \A x \in DOMAIN qa' : qa'[x] = qa[x]
                  /\ IF others = {}
                     THEN DOMAIN sites' = DOMAIN sites \ {siteId}
                     ELSE sites' = sites]_vars

\* C20: when the only two reports of a site are deleted by two concurrent
\* requests and both are answered 200, the site no longer exists
C20_ConcurrentDeletesRemoveSite ==
    \A p, q \in DelProcs :
        (/\ p # q
         /\ del[p].pc = "done" /\ del[p].status = 200
         /\ del[q].pc = "done" /\ del[q].status = 200
         /\ ~del[p].alone /\ ~del[q].alone
         /\ del[p].siteId = del[q].siteId
         /\ \A x \in DOMAIN qa : qa[x].siteId # del[p].siteId) =>
           del[p].siteId \notin DOMAIN sites

\* -------------------------------------------------- claims: authentication
\* the rows of every table the operations write
AuthStore ==
    <<qa, sites, invites, members, activity, comment, notification, siteUser>>

\* a request with this token has no valid bearer token
Unauthenticated(token) == authenticateToken(token, clock) # 0

\* C21: a request to a store-mutating operation that carries no token is
\* answered 401, one that carries an invalid or expired token is answered
\* 403, and neither changes the store: status change, PATCH /api/report/:id, invite-link creation, bulk DELETE /api/uploads and report
\* deletion
C21_MutationsNeedToken ==
    [][\A token \in Tokens :
          Unauthenticated(token) =>
            /\ ((\E id \in {"r1", UnknownReport} :
                    \/ ReqPatchStatus(token, id, "done")
                    \/ ReqPatchReport(token, id, "inProgress"))
                 \/ (\E readdirOk \in BOOLEAN : DeleteUploads(token, readdirOk)))
                => /\ AuthStore' = AuthStore
                   /\ lastRes'.status = authenticateToken(token, clock)
            /\ ((\E r \in InviteRoles : ReqInviteLink(token, "t1", r))
                 \/ DelCommit(1))
                => AuthStore' = AuthStore]_vars

\* -------------------------------------------------- claims: authorization
\* the caller owns the report or is a member of the team of its site
Authorized(actor, id) ==
    \/ qa[id].userId = actor
    \/ /\ qa[id].siteId \in DOMAIN sites
       /\ FindMember(members, sites[qa[id].siteId].teamId, actor)

\* C22: a request to change the status, priority or due date of a report by
\* a user who is neither its owner nor a member of the team of its site is
\* rejected and leaves the report unchanged
C22_OnlyAuthorizedChange ==
    [][(/\ lastRes'.op \in ChangeOps
        /\ <<qa, activity, lastRes>>' # <<qa, activity, lastRes>>
        /\ lastRes'.id \in DOMAIN qa
        /\ ~Authorized(lastRes'.userId, lastRes'.id)) =>
          /\ lastRes'.status \in {401, 403, 404}
          /\ qa' = qa]_vars

\* ---------------------------------------------------------- claims: billing
\* this step is a webhook request
WebhookStep == lastRes'.op = "webhook" /\ lastRes' # lastRes

\* C23: a webhook request whose signature fails verification is answered 400
\* and leaves every Subscription row unchanged, whatever its event type and
\* team id
C23_BadSignatureRejected ==
    [][(WebhookStep /\ lastRes'.body.sig # WebhookSecret) =>
          /\ lastRes'.status = 400
          /\ subscription' = subscription]_vars

\* a customer.subscription.updated event for t1, which has a row, signed
\* with another key, was answered 400
C23_Witness ==
    /\ lastRes.op = "webhook"
    /\ lastRes.body.sig = "other"
    /\ lastRes.body.type = "customer.subscription.updated"
    /\ lastRes.body.teamId = "t1"
    /\ lastRes.status = 400
    /\ subscription["t1"] # NoSub

\* C24: a verified customer.subscription.deleted event for a team that has
\* a Subscription row sets the row's status to canceled and its plan to a
\* value of {free, starter, team, agency}; the plan of every row is in that
\* set in every reachable state
C24_DeletedMeansCanceled ==
    /\ [](\A t \in TeamSet :
             subscription[t] # NoSub => subscription[t].plan \in Plans)
    /\ [][(/\ WebhookStep
           /\ lastRes'.body.sig = WebhookSecret
           /\ lastRes'.body.type = "customer.subscription.deleted"
           /\ lastRes'.body.teamId \in TeamSet
           /\ subscription[lastRes'.body.teamId] # NoSub) =>
             /\ subscription'[lastRes'.body.teamId].status = "canceled"
             /\ subscription'[lastRes'.body.teamId].plan \in Plans]_vars

\* ---------------------------------------------------- claims: screenshots
\* C25: when the upload of the screenshot to object storage fails, POST
\* /api/report is answered 500 and creates no QAReport row and no Site row
C25_UploadFailureWritesNothing ==
    [][\A p \in RepProcs :
          (/\ rep[p].pc = "handler"
           /\ rep'[p].pc = "done"
           /\ rep'[p].resp = "500 Failed to save report") =>
            /\ reports' = reports
            /\ sites' = sites]_vars

\* a request that passed the gate for t1 was answered 500
C25_Witness ==
    \E p \in RepProcs :
        /\ rep[p].pc = "done"
        /\ rep[p].resp = "500 Failed to save report"
        /\ rep[p].gateTeam = "t1"

\* ---------------------------------------------------- claims: gated team
\* C29: the team whose plan and usage requireActivePlan evaluated is the
\* team the mutation affects: a report created by POST /api/report is
\* attached to a site owned by the gated team
C29_GatedTeamOwnsSite ==
    \A p \in RepProcs :
        (rep[p].pc = "done" /\ rep[p].resp = "200 report") =>
            /\ rep[p].domain \in DOMAIN sites
            /\ sites[rep[p].domain].teamId = rep[p].gateTeam

\* ---------------------------------------------------------- claims: invites
\* an invite that is pending at time t: unused, and unexpired as GET
\* /teams/:teamId/invite-link reads it
Pending(invite, t) == ~invite.used /\ invite.expiresAt > t

\* C26: every POST /teams/:teamId/invite-link adds exactly one new invite,
\* pending (used = false), expiring seven days after its creation, with the
\* requested role or member by default and no target email, and leaves all
\* existing invites and all memberships unchanged
C26_InviteLinkAddsOne ==
    [][\A role \in {NoRole, "owner"} :
          PostInviteLink("t1", role) =>
            /\ Cardinality(DOMAIN invites' \ DOMAIN invites) = 1
            /\ \A c \in DOMAIN invites' \ DOMAIN invites :
                  /\ invites'[c].teamId = "t1"
                  /\ invites'[c].used = FALSE
                  /\ invites'[c].expiresAt = now + InviteTtl
                  /\ invites'[c].role = (IF role = NoRole THEN "member" ELSE role)
                  /\ invites'[c].email = NoEmail
            /\ \A c \in DOMAIN invites : invites'[c] = invites[c]
            /\ members' = members]_vars

\* two calls without a role, at different times: two pending member invites
C26_Witness ==
    /\ DOMAIN invites = {"c1", "c2"}
    /\ \A c \in DOMAIN invites :
          /\ invites[c].email = NoEmail
          /\ invites[c].role = "member"
          /\ ~invites[c].used
    /\ invites["c1"].expiresAt < invites["c2"].expiresAt

\* C27: the code GET /teams/:teamId/invite-link returns is that of an invite
\* that is pending (unexpired and unused) at the time of the call, so that
\* POST /teams/join would accept it, and the call mints an invite only when
\* the team has no pending invite
C27_ReturnedCodeRedeemable ==
    [][GetInviteLink("t1", NoRole) =>
          /\ Pending(invites'[lastRes'.report.code], now)
          /\ JoinCheck(invites'[lastRes'.report.code], now) = "Pass"
          /\ (invites' # invites =>
                \A c \in DOMAIN invites :
                   invites[c].teamId = "t1" => ~Pending(invites[c], now))]_vars

\* the plan of a team: that of its Subscription row, or free
EffectivePlan(t) ==
    IF subscription[t] = NoSub THEN "free" ELSE subscription[t].plan

\* C28: the number of members of a team never exceeds the member ceiling of
\* its effective plan
C28_MembersWithinCeiling ==
    \A t \in teams :
        TeamMembers(members, t) <= PLAN_LIMITS(EffectivePlan(t)).members

\* C30: a POST /teams/join with the code of an invite bound to an email, by
\* a user with another email, creates no TeamMember row and does not mark
\* the invite used
C30_BoundInviteOnlyForTarget ==
    [][\A p \in JoinProcs :
          (/\ JoinCommit(p)
           /\ join[p].invite.email # NoEmail
           /\ join[p].invite.email # Email(join[p].userId)) =>
             /\ members' = members
             /\ invites' = invites]_vars

====
